---- MODULE Spec2Model ----
(***************************************************************************)
(* The indicator engine of src/services/math.ts (calculateRSI,             *)
(* calculateEMA, calculateATR, calculateADX, calculateNadarayaWatson,      *)
(* calculateNextNadarayaWatson, processIndicators, updateLastCandle) and   *)
(* the way src/App.tsx drives it: a stored record sequence that is built   *)
(* by one batch call and extended one bar at a time.                       *)
(*                                                                         *)
(* Numbers.  A JavaScript number is modelled as an exact extended          *)
(* rational <<n, d>>: d > 0 is the finite value n/d in lowest terms,       *)
(* <<0,0>> is NaN, <<1,0>> is +Infinity, <<-1,0>> is -Infinity.  Rounding  *)
(* is not modelled (the specification states its equalities "to floating   *)
(* point tolerance"); NaN and the infinities follow IEEE 754.  No divisor  *)
(* of the code can be -0 (every divisor is a period, a sum of True Ranges  *)
(* or absolute values, or a sum behind a === 0 guard), so the sign of      *)
(* zero is not modelled.  <<0,-1>> is the value `undefined` of an absent   *)
(* optional field.                                                         *)
(*                                                                         *)
(* Scale.  The periods and window caps of the code (14, 12..676, 10, 500,  *)
(* 300) are scaled down to the small numbers below so that every seeding,  *)
(* smoothing and truncation case happens within MaxLen bars; the code is   *)
(* the same for every period.  Array index i of the code is index i+1 of   *)
(* the sequence here; At(a, i) reads the code's a[i].                      *)
(***************************************************************************)
EXTENDS Integers, Sequences, FiniteSets, TLC

(* ------------------------------ numbers -------------------------------- *)

NaN == <<0, 0>>
PInf == <<1, 0>>
NInf == <<-1, 0>>
Undefined == <<0, -1>>
Zero == <<0, 1>>
One == <<1, 1>>
Num(k) == <<k, 1>>

IAbs(n) == IF n < 0 THEN -n ELSE n
ISign(n) == IF n > 0 THEN 1 ELSE IF n < 0 THEN -1 ELSE 0

RECURSIVE Gcd(_, _)
Gcd(a, b) == IF b = 0 THEN a ELSE Gcd(b, a % b)

\* n/d in lowest terms with a positive denominator; d = 0 gives NaN or an infinity
Norm(n, d) ==
  IF d = 1 THEN <<n, 1>>
  ELSE IF d = 0 THEN <<ISign(n), 0>>
  ELSE LET s == IF d < 0 THEN -1 ELSE 1
           g == Gcd(IAbs(n), IAbs(d))
       IN  <<(s * n) \div g, (s * d) \div g>>

isNaN(x) == x = NaN
IsFinite(x) == x[2] > 0
\* JavaScript truthiness of a number: 0 and NaN are falsy
Truthy(x) == ~isNaN(x) /\ x # Zero
\* a || b
Or(a, b) == IF Truthy(a) THEN a ELSE b

FNeg(x) == <<-x[1], x[2]>>
FAbs(x) == <<IAbs(x[1]), x[2]>>

\* x + y; Infinity + -Infinity and anything with NaN or undefined is NaN
FAdd(x, y) ==
  IF x[2] > 0 /\ y[2] > 0
    THEN IF x[2] = y[2] THEN Norm(x[1] + y[1], x[2])
         ELSE LET g == Gcd(x[2], y[2])
              IN  Norm(x[1] * (y[2] \div g) + y[1] * (x[2] \div g), (x[2] \div g) * y[2])
  ELSE IF x[2] < 0 \/ y[2] < 0 \/ isNaN(x) \/ isNaN(y) THEN NaN
  ELSE IF x[2] = 0 THEN (IF y[2] = 0 /\ y[1] # x[1] THEN NaN ELSE x)
  ELSE y

FSub(x, y) == FAdd(x, FNeg(y))

\* x * y; 0 * Infinity is NaN.  The factors are in lowest terms, so cancelling
\* across them leaves the product in lowest terms
FMul(x, y) ==
  IF x[2] > 0 /\ y[2] > 0
    THEN IF x[1] = 0 \/ y[1] = 0 THEN Zero
         ELSE LET g1 == Gcd(IAbs(x[1]), y[2])
                  g2 == Gcd(IAbs(y[1]), x[2])
              IN  <<(x[1] \div g1) * (y[1] \div g2), (x[2] \div g2) * (y[2] \div g1)>>
  ELSE IF x[2] < 0 \/ y[2] < 0 \/ isNaN(x) \/ isNaN(y) THEN NaN
  ELSE <<ISign(x[1]) * ISign(y[1]), 0>>

\* 1/y; 1/0 is +Infinity, 1/Infinity is 0
Recip(y) ==
  IF y[1] > 0 THEN <<y[2], y[1]>>
  ELSE IF y[1] < 0 THEN <<-y[2], -y[1]>>
  ELSE IF y[2] > 0 THEN PInf
  ELSE NaN

\* x / y; x / 0 is an infinity of the sign of x, 0 / 0 is NaN
FDiv(x, y) == FMul(x, Recip(y))

\* x < y; every comparison with NaN is false
FLt(x, y) ==
  IF x[2] > 0 /\ y[2] > 0 THEN x[1] * y[2] < y[1] * x[2]
  ELSE /\ x[2] >= 0 /\ y[2] >= 0
       /\ ~isNaN(x)
       /\ ~isNaN(y)
       /\ (x = NInf /\ y # NInf) \/ (y = PInf /\ x # PInf)
FGt(x, y) == FLt(y, x)
\* x === y
FEq(x, y) == ~isNaN(x) /\ ~isNaN(y) /\ x = y
FLe(x, y) == FLt(x, y) \/ FEq(x, y)
FGe(x, y) == FLe(y, x)

\* Math.max of two and of three numbers: NaN when any argument is NaN
Max2(a, b) == IF isNaN(a) \/ isNaN(b) THEN NaN ELSE IF FLt(a, b) THEN b ELSE a
Max3(a, b, c) == Max2(Max2(a, b), c)

At(a, i) == a[i + 1]
Last(a) == a[Len(a)]
\* new Array(n) left unfilled
Unfilled(n) == [i \in 1..n |-> Undefined]

\* new Array(n).fill(0)
Zeros(n) == [i \in 1..n |-> Zero]
\* a.slice(-(k - 1)): a trailing context one record short
SliceLastShort(a, k) ==
  IF Len(a) <= k - 1 THEN a ELSE SubSeq(a, Len(a) - k + 2, Len(a))

\* a.slice(-k)
SliceLast(a, k) == IF Len(a) <= k THEN a ELSE SubSeq(a, Len(a) - k + 1, Len(a))

(* ------------------------------- scale --------------------------------- *)

\* longest bar sequence explored
MaxLen == 6
\* RSI_PERIOD, ATR_PERIOD, ADX_PERIOD of processIndicators (14 in the code)
RSI_PERIOD == 2
ATR_PERIOD == 2
ADX_PERIOD == 2
\* EMA_FAST, EMA_TUNNEL_1, EMA_TUNNEL_2, EMA_TREND_1, EMA_TREND_2 (12, 144, 169, 576, 676)
EMA_FAST == 2
EMA_TUNNEL_1 == 3
EMA_TUNNEL_2 == 4
EMA_TREND_1 == 5
EMA_TREND_2 == 6
\* indices below this take the close +-1% band of calculateNadarayaWatson (10)
NW_WARMUP == 2
\* cap of the kernel window (500)
NW_LOOKBACK == 2
\* trailing context of updateLastCandle for RSI and ADX (300)
LOOKBACK == 4
\* NW_MULT of processIndicators
NW_MULT == 3

(* ------------------------------ calculateRSI --------------------------- *)

\* the RSI formula with a zero average loss replaced by 1 instead of answering 100
RsiValueLossFloor(avgGain, avgLoss) ==
  LET loss == IF avgLoss = Zero THEN One ELSE avgLoss
  IN  FSub(Num(100), FDiv(Num(100), FAdd(One, FDiv(avgGain, loss))))

\* the RSI formula without the avgLoss === 0 branch
RsiValueUnguarded(avgGain, avgLoss) ==
  FSub(Num(100), FDiv(Num(100), FAdd(One, FDiv(avgGain, avgLoss))))

\* 100 when avgLoss === 0, else 100 - 100 / (1 + avgGain / avgLoss)
RsiValue(avgGain, avgLoss) ==
  IF FEq(avgLoss, Zero) THEN Num(100)
  ELSE FSub(Num(100), FDiv(Num(100), FAdd(One, FDiv(avgGain, avgLoss))))

calculateRSI(data, period) ==
  LET n == Len(data)
      change(i) == FSub(At(data, i).close, At(data, i - 1).close)
      \* the initial SMA loop: <<gains, losses>> after i = 1..period
      RECURSIVE seed(_, _, _)
      seed(i, gains, losses) ==
        IF i > period THEN <<gains, losses>>
        ELSE LET ch == change(i)
             IN  IF FGe(ch, Zero) THEN seed(i + 1, FAdd(gains, ch), losses)
                 ELSE seed(i + 1, gains, FAdd(losses, FAbs(ch)))
      \* the smoothing loop for i = period+1 .. n-1
      RECURSIVE smoothed(_, _, _, _)
      smoothed(i, avgGain, avgLoss, rsiArray) ==
        IF i >= n THEN rsiArray
        ELSE LET ch == change(i)
                 gain == IF FGe(ch, Zero) THEN ch ELSE Zero
                 loss == IF FLt(ch, Zero) THEN FAbs(ch) ELSE Zero
                 g == FDiv(FAdd(FMul(avgGain, Num(period - 1)), gain), Num(period))
                 l == FDiv(FAdd(FMul(avgLoss, Num(period - 1)), loss), Num(period))
             IN  smoothed(i + 1, g, l, Append(rsiArray, RsiValue(g, l)))
  IN  IF n < period + 1 THEN Zeros(n)
      ELSE LET s == seed(1, Zero, Zero)
               avgGain == FDiv(s[1], Num(period))
               avgLoss == FDiv(s[2], Num(period))
           IN  smoothed(period + 1, avgGain, avgLoss,
                        Append(Zeros(period), RsiValue(avgGain, avgLoss)))

(* ------------------------------ calculateEMA --------------------------- *)

\* an EMA seeded with the first close instead of the average of the first
\* period closes
calculateEMASeededAtFirst(data, period) ==
  LET n == Len(data)
      k == FDiv(Num(2), Num(period + 1))
      RECURSIVE emas(_, _)
      emas(i, emaArray) ==
        IF i >= n THEN emaArray
        ELSE emas(i + 1, Append(emaArray,
               FAdd(FMul(At(data, i).close, k), FMul(At(emaArray, i - 1), FSub(One, k)))))
  IN  IF n = 0 THEN << >> ELSE emas(1, <<At(data, 0).close>>)

calculateEMA(data, period) ==
  LET n == Len(data)
      k == FDiv(Num(2), Num(period + 1))
      RECURSIVE sma(_, _)
      sma(i, sum) ==
        IF i >= period THEN sum ELSE sma(i + 1, FAdd(sum, At(data, i).close))
      RECURSIVE emas(_, _)
      emas(i, emaArray) ==
        IF i >= n THEN emaArray
        ELSE LET prevEma == At(emaArray, i - 1)
             IN  emas(i + 1, Append(emaArray,
                   IF isNaN(prevEma) THEN At(data, i).close
                   ELSE FAdd(FMul(At(data, i).close, k), FMul(prevEma, FSub(One, k)))))
  IN  IF n < period THEN Zeros(n)
      ELSE emas(period, Append(Zeros(period - 1), FDiv(sma(0, Zero), Num(period))))

(* ------------------------------ calculateATR --------------------------- *)

\* True Range of a bar against the previous close
TrueRange(high, low, prevClose) ==
  Max3(FSub(high, low), FAbs(FSub(high, prevClose)), FAbs(FSub(low, prevClose)))

calculateATR(data, period) ==
  LET n == Len(data)
      trArray(i) ==
        IF i = 0 THEN FSub(At(data, 0).high, At(data, 0).low)
        ELSE TrueRange(At(data, i).high, At(data, i).low, At(data, i - 1).close)
      RECURSIVE sma(_, _)
      sma(i, sumTR) ==
        IF i >= period THEN sumTR ELSE sma(i + 1, FAdd(sumTR, trArray(i)))
      RECURSIVE wilder(_, _)
      wilder(i, atrArray) ==
        IF i >= n THEN atrArray
        ELSE wilder(i + 1, Append(atrArray,
               FDiv(FAdd(FMul(At(atrArray, i - 1), Num(period - 1)), trArray(i)),
                    Num(period))))
  IN  IF n < period THEN Zeros(n)
      ELSE wilder(period, Append(Zeros(period - 1), FDiv(sma(0, Zero), Num(period))))

(* ------------------------------ calculateADX --------------------------- *)

\* Wilder running sum of calculateADX: prev - prev/period + new
\* the smoothing step in the averaged form of calculateATR
WilderAverage(prev, new, period) ==
  FDiv(FAdd(FMul(prev, Num(period - 1)), new), Num(period))

WilderSum(prev, new, period) == FAdd(FSub(prev, FDiv(prev, Num(period))), new)

\* DX from the smoothed True Range, +DM and -DM of one index
DxOf(smoothTR, smoothPlusDM, smoothMinusDM) ==
  LET pdi == FMul(FDiv(smoothPlusDM, smoothTR), Num(100))
      mdi == FMul(FDiv(smoothMinusDM, smoothTR), Num(100))
      sum == FAdd(pdi, mdi)
  IN  IF FEq(sum, Zero) THEN Zero
      ELSE FMul(FDiv(FAbs(FSub(pdi, mdi)), sum), Num(100))

\* tr[i], plusDM[i], minusDM[i] of calculateADX: all 0 at i = 0
directional(data, i) ==
  IF i = 0 THEN <<Zero, Zero, Zero>>
  ELSE LET curr == At(data, i)
           prev == At(data, i - 1)
           upMove == FSub(curr.high, prev.high)
           downMove == FSub(prev.low, curr.low)
       IN  <<TrueRange(curr.high, curr.low, prev.close),
             IF FGt(upMove, downMove) /\ FGt(upMove, Zero) THEN upMove ELSE Zero,
             IF FGt(downMove, upMove) /\ FGt(downMove, Zero) THEN downMove ELSE Zero>>

\* the sums over 1..period are accumulated per component
sumStep(sum, d) == <<FAdd(sum[1], d[1]), FAdd(sum[2], d[2]), FAdd(sum[3], d[3])>>

\* smoothX[i] = smoothX[i-1] - smoothX[i-1]/period + x[i], per component
smoothStep(prev, d, period) ==
  <<WilderSum(prev[1], d[1], period), WilderSum(prev[2], d[2], period),
    WilderSum(prev[3], d[3], period)>>

\* smoothTR, smoothPlusDM, smoothMinusDM of calculateADX as one array of
\* triples: 0 below index period, the sums over 1..period at index period, the
\* Wilder step after it
smoothedDirectional(data, period) ==
  LET n == Len(data)
      RECURSIVE sums(_, _)
      sums(i, sum) ==
        IF i > period THEN sum ELSE sums(i + 1, sumStep(sum, directional(data, i)))
      RECURSIVE smooth(_, _)
      smooth(i, arr) ==
        IF i >= n THEN arr
        ELSE smooth(i + 1, Append(arr, smoothStep(Last(arr), directional(data, i), period)))
  IN  smooth(period + 1,
             Append([k \in 1..period |-> <<Zero, Zero, Zero>>],
                    sums(1, <<Zero, Zero, Zero>>)))

\* DX from one triple of smoothed values
dxOfTriple(t) == DxOf(t[1], t[2], t[3])

\* dx of calculateADX: 0 below index period
RECURSIVE dxFrom(_, _, _)
dxFrom(sm, i, dx) ==
  IF i >= Len(sm) THEN dx ELSE dxFrom(sm, i + 1, Append(dx, dxOfTriple(At(sm, i))))

dxArray(data, period) == dxFrom(smoothedDirectional(data, period), period, Zeros(period))

\* adx of calculateADX from its dx array: 0 below index 2*period-1, the mean of
\* dx[period..2*period-1] there, the Wilder average after it
adxFrom(dx, period) ==
  LET n == Len(dx)
      RECURSIVE sumDX(_, _)
      sumDX(i, sum) ==
        IF i >= period * 2 THEN sum ELSE sumDX(i + 1, FAdd(sum, At(dx, i)))
      RECURSIVE adxs(_, _)
      adxs(i, adxArray) ==
        IF i >= n THEN adxArray
        ELSE adxs(i + 1, Append(adxArray,
               FDiv(FAdd(FMul(At(adxArray, i - 1), Num(period - 1)), At(dx, i)),
                    Num(period))))
  IN  adxs(period * 2,
           Append(Zeros(period * 2 - 1), FDiv(sumDX(period, Zero), Num(period))))

calculateADX(data, period) ==
  IF Len(data) < period * 2 THEN Zeros(Len(data))
  ELSE adxFrom(dxArray(data, period), period)

(* ------------------------- Nadaraya-Watson envelope -------------------- *)

\* Math.exp(-(distance*distance) / (2*bandwidth*bandwidth)) for the bandwidth
\* at which exp(-1/(2*bandwidth^2)) = 1/2: the weight is 2^-(distance^2),
\* 1 at distance 0, positive and strictly decreasing, as for bandwidth 20
Weight(distance) == <<1, 2 ^ (distance * distance)>>

IMin(a, b) == IF a < b THEN a ELSE b
IMax(a, b) == IF a > b THEN a ELSE b

\* the kernel sums of target index i over the samples data[startJ..endJ]
KernelSumWeights(startJ, endJ, i) ==
  LET RECURSIVE sum(_, _)
      sum(j, sumWeights) ==
        IF j > endJ THEN sumWeights ELSE sum(j + 1, FAdd(sumWeights, Weight(i - j)))
  IN  sum(startJ, Zero)
\* the close sum taken without the kernel weight
KernelSumClose(data, startJ, endJ, i) ==
  LET RECURSIVE sum(_, _)
      sum(j, sumClose) ==
        IF j > endJ THEN sumClose ELSE sum(j + 1, FAdd(sumClose, At(data, j).close))
  IN  sum(startJ, Zero)
KernelSumWeightedClose(data, startJ, endJ, i) ==
  LET RECURSIVE sum(_, _)
      sum(j, sumWeightedClose) ==
        IF j > endJ THEN sumWeightedClose
        ELSE sum(j + 1, FAdd(sumWeightedClose, FMul(At(data, j).close, Weight(i - j))))
  IN  sum(startJ, Zero)
KernelSumWeightedDiff(data, startJ, endJ, i, yHat) ==
  LET RECURSIVE sum(_, _)
      sum(j, sumWeightedDiff) ==
        IF j > endJ THEN sumWeightedDiff
        ELSE sum(j + 1, FAdd(sumWeightedDiff,
                             FMul(Weight(i - j), FAbs(FSub(At(data, j).close, yHat)))))
  IN  sum(startJ, Zero)

calculateNadarayaWatson(data, multiplier) ==
  LET n == Len(data)
      lookback == IMin(NW_LOOKBACK, n)
      RECURSIVE points(_, _, _, _)
      points(i, mid, upper, lower) ==
        IF i >= n THEN [mid |-> mid, upper |-> upper, lower |-> lower]
        ELSE IF i < NW_WARMUP
          THEN points(i + 1, Append(mid, At(data, i).close),
                      Append(upper, FMul(At(data, i).close, <<101, 100>>)),
                      Append(lower, FMul(At(data, i).close, <<99, 100>>)))
          ELSE LET startJ == IMax(0, i - lookback)
                   sumWeights == KernelSumWeights(startJ, i, i)
                   sumWeightedClose == KernelSumWeightedClose(data, startJ, i, i)
                   yHat == IF FGt(sumWeights, Zero) THEN FDiv(sumWeightedClose, sumWeights)
                           ELSE At(data, i).close
                   sumWeightedDiff == KernelSumWeightedDiff(data, startJ, i, i, yHat)
                   mae == IF FGt(sumWeights, Zero) THEN FDiv(sumWeightedDiff, sumWeights)
                          ELSE Zero
               IN  points(i + 1, Append(mid, yHat),
                          Append(upper, FAdd(yHat, FMul(Num(multiplier), mae))),
                          Append(lower, FSub(yHat, FMul(Num(multiplier), mae))))
  IN  points(0, << >>, << >>, << >>)

calculateNextNadarayaWatson(history, newCandle, multiplier) ==
  LET lookback == IMin(NW_LOOKBACK, Len(history))
      startIndex == IMax(0, Len(history) - lookback)
      i == Len(history)
      currentWeight == One
      sumWeights == FAdd(KernelSumWeights(startIndex, i - 1, i), currentWeight)
      sumWeightedClose ==
        FAdd(KernelSumWeightedClose(history, startIndex, i - 1, i),
             FMul(newCandle.close, currentWeight))
      yHat == FDiv(sumWeightedClose, sumWeights)
      sumWeightedDiff ==
        FAdd(KernelSumWeightedDiff(history, startIndex, i - 1, i, yHat),
             FMul(currentWeight, FAbs(FSub(newCandle.close, yHat))))
      mae == FDiv(sumWeightedDiff, sumWeights)
  IN  [nwMid |-> yHat,
       nwUpper |-> FAdd(yHat, FMul(Num(multiplier), mae)),
       nwLower |-> FSub(yHat, FMul(Num(multiplier), mae))]

\* the indices j of the bars that enter the sums of calculateNadarayaWatson for
\* target index i of n bars: none in the warm-up, else startJ..i
kernelSamples(n, i) ==
  IF i < NW_WARMUP THEN {} ELSE IMax(0, i - IMin(NW_LOOKBACK, n))..i

\* the same for calculateNextNadarayaWatson over a history of len bars:
\* startIndex..len-1 of the history and the new bar, at index len
nextKernelSamples(len) ==
  (IMax(0, len - IMin(NW_LOOKBACK, len))..(len - 1)) \cup {len}

(* ---------------------------- processIndicators ------------------------ *)

\* isNaN(x) ? 0 : x
Sanitize(x) == IF isNaN(x) THEN Zero ELSE x

\* the sanitized bar built without spreading the input bar's other fields
safeCandleNoSpread(c) ==
  [c EXCEPT !.open = Sanitize(c.open), !.high = Sanitize(c.high),
            !.low = Sanitize(c.low), !.close = Sanitize(c.close),
            !.time = 0, !.volume = Undefined]

safeCandle(c) ==
  [c EXCEPT !.open = Sanitize(c.open), !.high = Sanitize(c.high),
            !.low = Sanitize(c.low), !.close = Sanitize(c.close)]

\* candles.map(safeCandle)
RECURSIVE safeCandles(_)
safeCandles(cs) ==
  IF cs = << >> THEN << >> ELSE <<safeCandle(Head(cs))>> \o safeCandles(Tail(cs))

\* whether the call throws: processIndicators has no throw statement and never
\* reads `time`
processIndicatorsThrows(cs) == FALSE

\* the argument array after the call: processIndicators builds new objects
\* (candles.map with a spread) and the calculate* functions only read `data`
candlesAfterProcessIndicators(cs) == cs

\* the record of one bar: undefined, NaN and 0 results fall back (|| 50, || 0,
\* || c.close)
withIndicators(c, rsi, atr, nwMid, nwUpper, nwLower, ema12, ema144, ema169, ema576, ema676, adx) ==
  [c EXCEPT !.rsi = Or(rsi, Num(50)),
            !.atr = Or(atr, Zero),
            !.nwMid = Or(nwMid, c.close),
            !.nwUpper = Or(nwUpper, c.close),
            !.nwLower = Or(nwLower, c.close),
            !.ema12 = Or(ema12, c.close),
            !.ema144 = Or(ema144, c.close),
            !.ema169 = Or(ema169, c.close),
            !.ema576 = Or(ema576, c.close),
            !.ema676 = Or(ema676, c.close),
            !.adx = Or(adx, Zero)]

\* safeCandles.map((c, i) => ({...c, rsi: rsi[i] || 50, ...}))
mapIndicators(safe, rsi, atr, nw, adx, ema12, ema144, ema169, ema576, ema676) ==
  [j \in 1..Len(safe) |->
     withIndicators(safe[j], rsi[j], atr[j], nw.mid[j], nw.upper[j], nw.lower[j],
                    ema12[j], ema144[j], ema169[j], ema576[j], ema676[j], adx[j])]

\* the indicator arrays of the sanitized bars and their records
indicatorsOf(safe) ==
  mapIndicators(safe, calculateRSI(safe, RSI_PERIOD), calculateATR(safe, ATR_PERIOD),
                calculateNadarayaWatson(safe, NW_MULT), calculateADX(safe, ADX_PERIOD),
                calculateEMA(safe, EMA_FAST), calculateEMA(safe, EMA_TUNNEL_1),
                calculateEMA(safe, EMA_TUNNEL_2), calculateEMA(safe, EMA_TREND_1),
                calculateEMA(safe, EMA_TREND_2))

processIndicators(cs) ==
  IF Len(cs) = 0 THEN << >> ELSE indicatorsOf(safeCandles(cs))

(* ----------------------------- updateLastCandle ------------------------ *)

calcEma(prev, close, period) ==
  IF prev = Undefined \/ isNaN(prev) THEN close
  ELSE LET k == FDiv(Num(2), Num(period + 1))
       IN  FAdd(FMul(close, k), FMul(prev, FSub(One, k)))

calcAtr(prevAtr, current, prevClose, period) ==
  LET tr == TrueRange(current.high, current.low, prevClose)
  IN  IF prevAtr = Undefined \/ isNaN(prevAtr) THEN tr
      ELSE FDiv(FAdd(FMul(prevAtr, Num(period - 1)), tr), Num(period))

\* whether the call throws: updateLastCandle has no throw statement and never
\* compares newCandle.time with the last prior time
updateLastCandleThrows(prevData, newCandle) == FALSE

\* a prior array trimmed in place to the trailing context (splice for slice)
prevDataSpliced(prevData, newCandle) == SliceLast(prevData, LOOKBACK)

\* the prior array after the call: prevData is only read (slice(-lookback) and
\* the spreads copy)
prevDataAfterUpdateLastCandle(prevData, newCandle) == prevData

\* the whole prior array as the context of RSI and ADX
wholeContext(prevData) == prevData

\* prevData.slice(-lookback): the trailing context RSI and ADX are computed on
trailingContext(prevData) == SliceLast(prevData, LOOKBACK)

\* the record of the new bar: { ...newCandle, ema12: ..., ..., nwLower }
nextRecord(newCandle, lastKnown, nwParams, rsiArray, adxArray) ==
  [newCandle EXCEPT
     !.ema12 = calcEma(lastKnown.ema12, newCandle.close, EMA_FAST),
     !.ema144 = calcEma(lastKnown.ema144, newCandle.close, EMA_TUNNEL_1),
     !.ema169 = calcEma(lastKnown.ema169, newCandle.close, EMA_TUNNEL_2),
     !.ema576 = calcEma(lastKnown.ema576, newCandle.close, EMA_TREND_1),
     !.ema676 = calcEma(lastKnown.ema676, newCandle.close, EMA_TREND_2),
     !.atr = calcAtr(lastKnown.atr, newCandle, lastKnown.close, ATR_PERIOD),
     !.rsi = Last(rsiArray),
     !.adx = Last(adxArray),
     !.nwMid = nwParams.nwMid,
     !.nwUpper = nwParams.nwUpper,
     !.nwLower = nwParams.nwLower]

\* the incremental step over a non-empty history: buffer is the trailing
\* context with the new bar appended ([...context, newCandle])
nextFromBuffer(prevData, newCandle, buffer) ==
  nextRecord(newCandle, Last(prevData),
             calculateNextNadarayaWatson(prevData, newCandle, NW_MULT),
             calculateRSI(buffer, RSI_PERIOD), calculateADX(buffer, ADX_PERIOD))

updateLastCandle(prevData, newCandle) ==
  IF Len(prevData) = 0 THEN processIndicators(<<newCandle>>)[1]
  ELSE nextFromBuffer(prevData, newCandle, Append(trailingContext(prevData), newCandle))

(* ------------------------------ state machine -------------------------- *)

VARIABLES
  candles,   \* the raw bars delivered so far, oldest first
  data,      \* the stored records (App.tsx `data`)
  batched,   \* how many leading records of data came from processIndicators
  backlog,   \* backlogRef.current: the raw bars queued for playback
  isPlaying, \* App.tsx `isPlaying`
  appMode,   \* App.tsx `appMode`: "IDLE", "BACKTEST" or "LIVE"
  dataSource,\* App.tsx `dataSource`
  wsRef,     \* wsRef.current: "null" or "stream", the handle of one open stream
  streams,   \* how many WebSocket streams are open
  fetching,  \* how many initData calls await fetchHistoricalData
  connecting,\* how many startLiveConnection calls await their initData
  startTimer \* how many setTimeout(startLiveConnection) timers are pending

\* the state of the App component beside the stored records
app == <<backlog, isPlaying, appMode, dataSource, wsRef, streams, fetching,
         connecting, startTimer>>

vars == <<candles, data, batched, app>>

\* a raw bar: OHLCV with every optional indicator field absent
Bar(o, h, l, c) ==
  [time |-> 0, open |-> o, high |-> h, low |-> l, close |-> c, volume |-> One,
   rsi |-> Undefined, atr |-> Undefined, nwMid |-> Undefined, nwUpper |-> Undefined,
   nwLower |-> Undefined, ema12 |-> Undefined, ema144 |-> Undefined,
   ema169 |-> Undefined, ema576 |-> Undefined, ema676 |-> Undefined,
   adx |-> Undefined]

\* bars with finite, positive OHLC: flat, rising, falling
FiniteBars ==
  { Bar(Num(2), Num(2), Num(2), Num(2)),
    Bar(Num(2), Num(3), Num(2), Num(3)),
    Bar(Num(2), Num(2), Num(1), Num(1)) }

\* what a producer may also deliver: a bar below zero and bars with non-finite OHLC
RawBars ==
  FiniteBars \cup
  { Bar(Num(-1), Num(-1), Num(-2), Num(-2)),
    Bar(NaN, NaN, NaN, NaN),
    Bar(PInf, PInf, NInf, PInf) }

\* longest bar sequence explored when the bars are drawn from RawBars
MaxRawLen == 3

\* the App component as constructed: no queue, idle, nothing in flight
AppIdle ==
  /\ backlog = << >>
  /\ isPlaying = FALSE
  /\ appMode = "IDLE"
  /\ dataSource = "BINANCE"
  /\ wsRef = "null"
  /\ streams = 0
  /\ fetching = 0
  /\ connecting = 0
  /\ startTimer = 0

Init ==
  /\ candles = << >>
  /\ data = << >>
  /\ batched = 0
  /\ AppIdle

\* one new bar arrives and is appended through updateLastCandle
\* (App.tsx: newData = [...prevData, updateLastCandle(prevData, candle)])
AppendBar(bar) ==
  /\ ~updateLastCandleThrows(data, bar)
  /\ candles' = Append(candles, bar)
  /\ data' = Append(prevDataAfterUpdateLastCandle(data, bar),
                    updateLastCandle(data, bar))
  /\ UNCHANGED <<batched, app>>

\* the producers of App.tsx deliver bars in time order
Append1(c) == AppendBar([c EXCEPT !.time = Len(candles) + 1])

Tick(c) == Len(candles) < MaxLen /\ Append1(c)

\* the history delivered so far is processed in one batch call, once; the bars
\* after it arrive one at a time (App.tsx: setData(processIndicators(rawData)))
Reload ==
  /\ Len(candles) > 0
  /\ batched = 0
  /\ ~processIndicatorsThrows(candles)
  /\ data' = processIndicators(candles)
  /\ batched' = Len(candles)
  /\ candles' = candlesAfterProcessIndicators(candles)
  /\ UNCHANGED app

Next ==
  \/ \E c \in FiniteBars : Tick(c)
  \/ Reload

Spec == Init /\ [][Next]_vars

\* the same machine fed by a producer that does not keep OHLC finite or positive
TickRaw(c) == Len(candles) < MaxRawLen /\ Append1(c)

NextRaw ==
  \/ \E c \in RawBars : TickRaw(c)
  \/ Reload

SpecRaw == Init /\ [][NextRaw]_vars

\* the same machine over histories long enough for the longest EMA period to
\* be determined before bars are appended: rising and falling bars only
LongBars ==
  { Bar(Num(2), Num(3), Num(2), Num(3)),
    Bar(Num(2), Num(2), Num(1), Num(1)) }
MaxLongLen == 7

TickLong(c) == Len(candles) < MaxLongLen /\ Append1(c)

NextLong ==
  \/ \E c \in LongBars : TickLong(c)
  \/ Reload

SpecLong == Init /\ [][NextLong]_vars

\* the exported functions called by any caller: the bar carries whatever time
\* the caller gives it
CallerBars ==
  { Bar(Num(2), Num(2), Num(2), Num(2)),
    Bar(Num(2), Num(3), Num(2), Num(3)) }
\* longest bar sequence and largest timestamp explored for such a caller
MaxCallerLen == 3
MaxTime == 2

TickAt(c, t) == Len(candles) < MaxCallerLen /\ AppendBar([c EXCEPT !.time = t])

NextCaller ==
  \/ \E c \in CallerBars : \E t \in 1..MaxTime : TickAt(c, t)
  \/ Reload

SpecCaller == Init /\ [][NextCaller]_vars

(* ------------------------------ the application ------------------------ *)

\* App.tsx scaled down: the initial context (200), the history fetched (1000),
\* the rolling buffer (3000), the tail reprocessed by a same-time tick (500)
INITIAL_COUNT == 2
FETCH_LIMIT == 4
MAX_STORED_CANDLES == 4
LIVE_TAIL == 2
\* the wall clock (Date.now(), in candle intervals), the largest timestamp a
\* generated bar may carry, and the most calls in flight that are explored
NOW == 4
MaxAppTime == 5
MaxFetching == 1
MaxStreams == 2
\* the series generateInitialData starts from (65000)
GEN_PRICE == 3

Min2(a, b) == IF isNaN(a) \/ isNaN(b) THEN NaN ELSE IF FLt(b, a) THEN b ELSE a

BarAt(c, t) == [c EXCEPT !.time = t]

\* generateNextCandle: the bar opens at the previous close and moves by change
\* (the random draw plus momentum); the random wicks are drawn as 0
generateNextCandle(prev, change) ==
  LET open == prev.close
      close == FAdd(prev.close, change)
  IN  BarAt(Bar(open, Max2(open, close), Min2(open, close), close), prev.time + 1)

\* generateInitialData(count): a random walk from GEN_PRICE whose bars are
\* one interval apart and end one interval before NOW; the random draws are
\* one change per bar, here the same for every bar of the series
RECURSIVE generateInitialData(_, _)
generateInitialData(count, change) ==
  IF count = 0 THEN << >>
  ELSE IF count = 1
       THEN <<generateNextCandle(
                 BarAt(Bar(Num(GEN_PRICE), Num(GEN_PRICE), Num(GEN_PRICE),
                           Num(GEN_PRICE)), NOW - INITIAL_COUNT - 1), change)>>
       ELSE LET before == generateInitialData(count - 1, change)
            IN  Append(before, generateNextCandle(Last(before), change))

\* the draws explored for the generators
Changes == {Num(1)}

\* what fetchHistoricalData resolves to: the klines of the exchange, oldest
\* first and ending at NOW, or [] when the request failed
History ==
  [t \in 1..FETCH_LIMIT |->
     BarAt(IF t % 3 = 1 THEN Bar(Num(2), Num(3), Num(2), Num(3))
           ELSE IF t % 3 = 2 THEN Bar(Num(3), Num(3), Num(2), Num(2))
           ELSE Bar(Num(2), Num(2), Num(2), Num(2)),
           NOW - FETCH_LIMIT + t)]
FetchResults == {History, << >>}

\* the bars a WebSocket message may carry (connectBinanceStream builds the
\* candle from the kline fields)
LiveBars ==
  { BarAt(Bar(Num(2), Num(2), Num(1), Num(1)), t) : t \in {NOW} }

\* the rows of an uploaded file: row k carries the k-th bar of CsvRowBars at
\* the time the file gives it, in any order; time 0 stands for a row whose
\* time does not parse
CsvRowBars ==
  << Bar(Num(2), Num(3), Num(2), Num(3)), Bar(Num(3), Num(3), Num(2), Num(2)),
     Bar(Num(2), Num(2), Num(2), Num(2)), Bar(Num(2), Num(2), Num(1), Num(1)),
     Bar(Num(1), Num(2), Num(1), Num(2)), Bar(Num(2), Num(3), Num(1), Num(3)) >>
CsvFile(times) == [k \in 1..Len(times) |-> BarAt(CsvRowBars[k], times[k])]
CsvTimeColumns == { <<2, 1, 0, 2, 1>>, <<0>> }
CsvFiles == { CsvFile(times) : times \in CsvTimeColumns }
\* the files explored when backtests run alone: also one that fills the
\* rolling buffer
PlaybackFiles == CsvFiles \cup { CsvFile(<<2, 1, 0, 2, 1, 2>>) }

\* Array.prototype.sort((a, b) => a.time - b.time): stable, ascending
RECURSIVE sortByTime(_)
sortByTime(rows) ==
  IF rows = << >> THEN << >>
  ELSE LET sorted == sortByTime(SubSeq(rows, 1, Len(rows) - 1))
           r == Last(rows)
           keep == Cardinality({j \in 1..Len(sorted) : sorted[j].time <= r.time})
       IN  SubSeq(sorted, 1, keep) \o <<r>> \o SubSeq(sorted, keep + 1, Len(sorted))

\* parseCSV: the rows without a time or with a NaN among open, high, low and
\* close are skipped, the others are returned sorted by time
RECURSIVE parsedRows(_)
parsedRows(rows) ==
  IF rows = << >> THEN << >>
  ELSE LET r == Head(rows)
       IN  IF r.time = 0 \/ isNaN(r.open) \/ isNaN(r.close) \/ isNaN(r.high)
              \/ isNaN(r.low)
           THEN parsedRows(Tail(rows))
           ELSE <<r>> \o parsedRows(Tail(rows))

parseCSV(rows) == sortByTime(parsedRows(rows))

\* the rolling buffer: if (newData.length > MAX_STORED_CANDLES) newData.shift()
rolled(newData) ==
  IF Len(newData) > MAX_STORED_CANDLES THEN Tail(newData) ELSE newData

\* the same-time branch of onUpdate: the last record is replaced by the live
\* candle, the last LIVE_TAIL bars are processed again and spliced back
replacedLast(prevData, liveCandle) == [prevData EXCEPT ![Len(prevData)] = liveCandle]
splicedTail(newData, processedTail) ==
  SubSeq(newData, 1, Len(newData) - Len(processedTail)) \o processedTail
reprocessedTail(newData) ==
  splicedTail(newData, processIndicators(SliceLast(newData, LIVE_TAIL)))

\* the updater that onUpdate hands to setData
onUpdate(prevData, liveCandle) ==
  IF Len(prevData) > 0 /\ liveCandle.time = Last(prevData).time
  THEN reprocessedTail(replacedLast(prevData, liveCandle))
  ELSE IF Len(prevData) > 0 /\ liveCandle.time > Last(prevData).time
  THEN rolled(Append(prevData, updateLastCandle(prevData, liveCandle)))
  ELSE prevData

\* the App component after its first render: the stored records are the
\* processed generated series
InitApp ==
  /\ candles = << >>
  /\ batched = 0
  /\ \E change \in Changes :
       data = processIndicators(generateInitialData(INITIAL_COUNT, change))
  /\ AppIdle

\* initData up to its await: the queue is emptied, and a fetch is started
\* unless the source is CSV
initDataCalled(source) ==
  /\ backlog' = << >>
  /\ fetching' = IF source = "CSV" THEN fetching ELSE fetching + 1

\* initData after its await: the first INITIAL_COUNT bars are processed and
\* stored and the rest queued; without history the generated series is stored
initDataResumed(rawData, change) ==
  IF Len(rawData) > 0
  THEN /\ data' = processIndicators(SubSeq(rawData, 1, IMin(INITIAL_COUNT, Len(rawData))))
       /\ backlog' = SubSeq(rawData, IMin(INITIAL_COUNT, Len(rawData)) + 1, Len(rawData))
  ELSE /\ data' = processIndicators(generateInitialData(INITIAL_COUNT, change))
       /\ UNCHANGED backlog

\* the Refresh button and the initial background load: initData(dataSource)
RefreshData ==
  /\ dataSource = "CSV" \/ fetching < MaxFetching
  /\ initDataCalled(dataSource)
  /\ UNCHANGED <<candles, data, batched, isPlaying, appMode, dataSource, wsRef,
                 streams, connecting, startTimer>>

\* the fetch of an initData call that nothing awaits resolves
FetchReturns(rawData, change) ==
  /\ fetching > 0
  /\ fetching' = fetching - 1
  /\ initDataResumed(rawData, change)
  /\ UNCHANGED <<candles, batched, isPlaying, appMode, dataSource, wsRef,
                 streams, connecting, startTimer>>

\* startLiveConnection up to its await: live mode is entered and the history
\* sync started (the source is never CSV here)
startLiveConnection ==
  /\ connecting + streams < MaxStreams
  /\ appMode' = "LIVE"
  /\ isPlaying' = FALSE
  /\ backlog' = << >>
  /\ connecting' = connecting + 1

\* the Run Live Strategy button of the idle toolbar
startLiveStrategy ==
  /\ appMode = "IDLE"
  /\ IF dataSource = "CSV"
     THEN /\ startTimer = 0
          /\ dataSource' = "BINANCE"
          /\ startTimer' = startTimer + 1
          /\ UNCHANGED <<backlog, isPlaying, appMode, connecting>>
     ELSE /\ startLiveConnection
          /\ UNCHANGED <<dataSource, startTimer>>
  /\ UNCHANGED <<candles, data, batched, wsRef, streams, fetching>>

\* the timer set by startLiveStrategy fires
StartTimerFires ==
  /\ startTimer > 0
  /\ startTimer' = startTimer - 1
  /\ startLiveConnection
  /\ UNCHANGED <<candles, data, batched, dataSource, wsRef, streams, fetching>>

\* startLiveConnection after its await: the history is stored and the stream
\* is opened and kept in wsRef
Connected(rawData, change) ==
  /\ connecting > 0
  /\ connecting' = connecting - 1
  /\ initDataResumed(rawData, change)
  /\ wsRef' = "stream"
  /\ streams' = streams + 1
  /\ UNCHANGED <<candles, batched, isPlaying, appMode, dataSource, fetching,
                 startTimer>>

\* the streams that are open and that wsRef does not hold
leaked == streams - (IF wsRef = "stream" THEN 1 ELSE 0)

\* stopLiveStrategy: the stream in wsRef, if any, is closed
stopLiveStrategy ==
  /\ streams' = IF wsRef = "stream" THEN streams - 1 ELSE streams
  /\ wsRef' = "null"
  /\ appMode' = "IDLE"
  /\ isPlaying' = FALSE

\* the STOP button of the live toolbar
StopLive ==
  /\ appMode = "LIVE"
  /\ stopLiveStrategy
  /\ UNCHANGED <<candles, data, batched, backlog, dataSource, fetching,
                 connecting, startTimer>>

\* ws.onerror of an open stream: the failed stream is gone and onError calls
\* stopLiveStrategy
StreamError(held) ==
  /\ IF held THEN wsRef = "stream" ELSE leaked > 0
  /\ streams' = IF wsRef = "stream" THEN streams - 1 - (IF held THEN 0 ELSE 1)
                ELSE streams - 1
  /\ wsRef' = "null"
  /\ appMode' = "IDLE"
  /\ isPlaying' = FALSE
  /\ UNCHANGED <<candles, data, batched, backlog, dataSource, fetching,
                 connecting, startTimer>>

\* ws.onmessage of an open stream delivers a kline
LiveTick(liveCandle) ==
  /\ streams > 0
  /\ data' = onUpdate(data, liveCandle)
  /\ UNCHANGED <<candles, batched, app>>

\* reader.onload of handleFileUpload (Load CSV of the backtest toolbar): a
\* file without a valid row is reported and changes nothing
handleFileUpload(file) ==
  /\ appMode = "BACKTEST"
  /\ LET rawCandles == parseCSV(file)
         n == IMin(INITIAL_COUNT, Len(rawCandles))
     IN  IF Len(rawCandles) = 0
         THEN UNCHANGED <<data, backlog, dataSource, appMode, isPlaying>>
         ELSE /\ data' = processIndicators(SubSeq(rawCandles, 1, n))
              /\ backlog' = SubSeq(rawCandles, n + 1, Len(rawCandles))
              /\ dataSource' = "CSV"
              /\ appMode' = "BACKTEST"
              /\ isPlaying' = FALSE
  /\ UNCHANGED <<candles, batched, wsRef, streams, fetching, connecting, startTimer>>

\* the Backtest button of the idle toolbar
startBacktest ==
  /\ appMode = "IDLE"
  /\ dataSource = "CSV" \/ fetching < MaxFetching
  /\ appMode' = "BACKTEST"
  /\ isPlaying' = FALSE
  /\ IF dataSource # "CSV" THEN initDataCalled(dataSource)
     ELSE UNCHANGED <<backlog, fetching>>
  /\ UNCHANGED <<candles, data, batched, dataSource, wsRef, streams, connecting,
                 startTimer>>

stopBacktest ==
  /\ appMode = "BACKTEST"
  /\ isPlaying' = FALSE
  /\ appMode' = "IDLE"
  /\ UNCHANGED <<candles, data, batched, backlog, dataSource, wsRef, streams,
                 fetching, connecting, startTimer>>

\* the play/pause button of the backtest toolbar
TogglePlay ==
  /\ appMode = "BACKTEST"
  /\ isPlaying' = ~isPlaying
  /\ UNCHANGED <<candles, data, batched, backlog, appMode, dataSource, wsRef,
                 streams, fetching, connecting, startTimer>>

\* the source select of the settings panel and of the live toolbar (CSV is
\* not among its options)
SetDataSource(newSource) ==
  /\ dataSource # newSource
  /\ dataSource' = newSource
  /\ UNCHANGED <<candles, data, batched, backlog, isPlaying, appMode, wsRef,
                 streams, fetching, connecting, startTimer>>

\* the newest queued bar
lastQueued(queue) == Last(queue)

\* the bar backlogRef.current.shift() returns: the oldest queued
nextQueued(queue) == Head(queue)

\* one tick of the interval of the Simulation Loop effect
SimulationTick(change) ==
  /\ isPlaying /\ appMode = "BACKTEST"
  /\ IF Len(backlog) > 0
     THEN /\ backlog' = Tail(backlog)
          /\ data' = rolled(Append(data, updateLastCandle(data, nextQueued(backlog))))
          /\ UNCHANGED isPlaying
     ELSE IF dataSource = "CSV"
     THEN /\ isPlaying' = FALSE
          /\ UNCHANGED <<data, backlog>>
     ELSE /\ Last(data).time < MaxAppTime
          /\ data' = rolled(Append(data,
                        updateLastCandle(data, generateNextCandle(Last(data), change))))
          /\ UNCHANGED <<isPlaying, backlog>>
  /\ UNCHANGED <<candles, batched, appMode, dataSource, wsRef, streams, fetching,
                 connecting, startTimer>>

NextApp ==
  \/ RefreshData
  \/ \E rawData \in FetchResults : \E change \in Changes : FetchReturns(rawData, change)
  \/ startLiveStrategy
  \/ StartTimerFires
  \/ \E rawData \in FetchResults : \E change \in Changes : Connected(rawData, change)
  \/ StopLive
  \/ \E held \in BOOLEAN : StreamError(held)
  \/ \E liveCandle \in LiveBars : LiveTick(liveCandle)
  \/ \E file \in CsvFiles : handleFileUpload(file)
  \/ startBacktest
  \/ stopBacktest
  \/ TogglePlay
  \/ SetDataSource("BINANCE")
  \/ \E change \in Changes : SimulationTick(change)

SpecApp == InitApp /\ [][NextApp]_vars

\* the application while live mode is never started: backtests only, with the
\* interval of the Simulation Loop effect firing as long as playback goes on
\* (setInterval)
NextPlayback ==
  \/ RefreshData
  \/ \E rawData \in FetchResults : \E change \in Changes : FetchReturns(rawData, change)
  \/ \E file \in PlaybackFiles : handleFileUpload(file)
  \/ startBacktest
  \/ stopBacktest
  \/ TogglePlay
  \/ SetDataSource("BINANCE")
  \/ \E change \in Changes : SimulationTick(change)

\* the states in which a tick of the interval can be taken
TickEnabled ==
  /\ isPlaying /\ appMode = "BACKTEST"
  /\ Len(backlog) > 0 \/ dataSource = "CSV" \/ Last(data).time < MaxAppTime

\* weak fairness of the tick, WF_vars(\E change \in Changes : SimulationTick(change)),
\* with its ENABLED written out as TickEnabled
TickFairness ==
  \/ []<>(~TickEnabled)
  \/ []<><<\E change \in Changes : SimulationTick(change)>>_vars

SpecPlayback ==
  /\ InitApp
  /\ [][NextPlayback]_vars
  /\ TickFairness

(* ------------------------------- properties ---------------------------- *)

FiniteOHLC(c) == IsFinite(c.open) /\ IsFinite(c.high) /\ IsFinite(c.low) /\ IsFinite(c.close)
AllFinite(bars) == \A j \in 1..Len(bars) : FiniteOHLC(bars[j])
InRange(x, lo, hi) == FLe(Num(lo), x) /\ FLe(x, Num(hi))
\* the records appended by updateLastCandle
Appended == (batched + 1)..Len(data)
\* every record was produced by folding updateLastCandle from the empty history
Folded == batched = 0

\* C1: folding updateLastCandle from the empty history gives, at every index
\* >= p-1, the EMA-p that calculateEMA gives in one batch call, for each of the
\* five configured periods.
C1_EmaFoldEqualsBatch ==
  (Folded /\ AllFinite(candles)) =>
    LET e12 == calculateEMA(candles, EMA_FAST)
        e144 == calculateEMA(candles, EMA_TUNNEL_1)
        e169 == calculateEMA(candles, EMA_TUNNEL_2)
        e576 == calculateEMA(candles, EMA_TREND_1)
        e676 == calculateEMA(candles, EMA_TREND_2)
    IN  \A j \in 1..Len(data) :
          /\ j - 1 >= EMA_FAST - 1 => data[j].ema12 = e12[j]
          /\ j - 1 >= EMA_TUNNEL_1 - 1 => data[j].ema144 = e144[j]
          /\ j - 1 >= EMA_TUNNEL_2 - 1 => data[j].ema169 = e169[j]
          /\ j - 1 >= EMA_TREND_1 - 1 => data[j].ema576 = e576[j]
          /\ j - 1 >= EMA_TREND_2 - 1 => data[j].ema676 = e676[j]

\* C2: folding updateLastCandle from the empty history gives, at every index
\* >= period-1, the ATR that calculateATR gives in one batch call.
C2_AtrFoldEqualsBatch ==
  (Folded /\ AllFinite(candles)) =>
    LET a == calculateATR(candles, ATR_PERIOD)
    IN  \A j \in 1..Len(data) : j - 1 >= ATR_PERIOD - 1 => data[j].atr = a[j]

\* C3: for every non-empty history and new bar, calculateNextNadarayaWatson
\* returns the (mid, upper, lower) that calculateNadarayaWatson gives at the
\* last index of history + [newBar].
C3_NextKernelEqualsBatch ==
  (Len(candles) >= 2 /\ AllFinite(candles)) =>
    LET n == Len(candles)
        next == calculateNextNadarayaWatson(SubSeq(candles, 1, n - 1), candles[n], NW_MULT)
        nw == calculateNadarayaWatson(candles, NW_MULT)
    IN  /\ next.nwMid = nw.mid[n]
        /\ next.nwUpper = nw.upper[n]
        /\ next.nwLower = nw.lower[n]

IndicatorFields(r) ==
  <<r.rsi, r.atr, r.adx, r.nwMid, r.nwUpper, r.nwLower,
    r.ema12, r.ema144, r.ema169, r.ema576, r.ema676>>
FiniteIndicators(r) == \A k \in 1..11 : IsFinite(IndicatorFields(r)[k])
FiniteArray(a) == \A j \in 1..Len(a) : IsFinite(a[j])

\* C4: for bars with finite OHLC every value of calculateRSI, calculateADX,
\* calculateATR, calculateEMA and calculateNadarayaWatson, and every indicator
\* field of a record of processIndicators or updateLastCandle, is finite.
C4_IndicatorsFinite ==
  AllFinite(candles) =>
    /\ FiniteArray(calculateRSI(candles, RSI_PERIOD))
    /\ FiniteArray(calculateADX(candles, ADX_PERIOD))
    /\ FiniteArray(calculateATR(candles, ATR_PERIOD))
    /\ FiniteArray(calculateEMA(candles, EMA_FAST))
    /\ LET nw == calculateNadarayaWatson(candles, NW_MULT)
       IN  FiniteArray(nw.mid) /\ FiniteArray(nw.upper) /\ FiniteArray(nw.lower)
    /\ \A j \in 1..Len(data) : FiniteIndicators(data[j])

Envelope(r) == FLe(r.nwLower, r.nwMid) /\ FLe(r.nwMid, r.nwUpper)

\* C5: in every record of processIndicators or updateLastCandle, for bars with
\* finite closes, nwLower <= nwMid <= nwUpper.
C5_EnvelopeOrdered ==
  AllFinite(candles) => \A j \in 1..Len(data) : Envelope(data[j])

\* C6: every value of calculateADX and the adx field of every record of
\* processIndicators or updateLastCandle lies in [0, 100], for finite OHLC.
C6_AdxInRange ==
  AllFinite(candles) =>
    /\ LET a == calculateADX(candles, ADX_PERIOD)
       IN  \A j \in 1..Len(a) : InRange(a[j], 0, 100)
    /\ \A j \in 1..Len(data) : InRange(data[j].adx, 0, 100)

\* C7: every value of calculateRSI and the rsi field of every record of
\* processIndicators or updateLastCandle lies in [0, 100], for finite closes.
C7_RsiInRange ==
  AllFinite(candles) =>
    /\ LET a == calculateRSI(candles, RSI_PERIOD)
       IN  \A j \in 1..Len(a) : InRange(a[j], 0, 100)
    /\ \A j \in 1..Len(data) : InRange(data[j].rsi, 0, 100)

\* a history loaded by the batch call with a determined RSI of 100 in it, then
\* extended past the trailing context by updateLastCandle to an RSI strictly
\* between 0 and 100
C7_Witness ==
  /\ batched > RSI_PERIOD
  /\ Len(data) > batched
  /\ Len(data) > LOOKBACK + 1
  /\ \E j \in 1..batched : j - 1 >= RSI_PERIOD /\ data[j].rsi = Num(100)
  /\ FLt(Zero, Last(data).rsi)
  /\ FLt(Last(data).rsi, Num(100))

\* C8: at every index >= period the rsi field of a record of processIndicators
\* is the Wilder RSI of the series; the default 50 never replaces a determined
\* value.
C8_BatchRsiIsWilder ==
  (batched = Len(data) /\ AllFinite(candles)) =>
    LET a == calculateRSI(candles, RSI_PERIOD)
    IN  \A j \in 1..Len(data) : j - 1 >= RSI_PERIOD => data[j].rsi = a[j]

\* the convention defaults of a record whose history (j bars, itself included)
\* is too short for the indicator
DefaultsWhenShort(r, j) ==
  /\ j < RSI_PERIOD + 1 => r.rsi = Num(50)
  /\ j < EMA_FAST => r.ema12 = r.close
  /\ j < EMA_TUNNEL_1 => r.ema144 = r.close
  /\ j < EMA_TUNNEL_2 => r.ema169 = r.close
  /\ j < EMA_TREND_1 => r.ema576 = r.close
  /\ j < EMA_TREND_2 => r.ema676 = r.close
  /\ j < ATR_PERIOD => r.atr = Zero
  /\ j < ADX_PERIOD * 2 => r.adx = Zero

\* C9: a record of either path whose history is too short for an indicator
\* carries the default: 50 for rsi, the bar's close for the EMA fields, 0 for
\* atr and adx.
C9_DefaultsOnBothPaths ==
  AllFinite(candles) => \A j \in 1..Len(data) : DefaultsWhenShort(data[j], j)

\* C10: every output record of processIndicators has finite open, high, low and
\* close: a NaN, +Infinity or -Infinity input field comes out as the fallback 0.
C10_BatchSanitizesNonFinite ==
  LET out == processIndicators(candles)
      field(r) == <<r.open, r.high, r.low, r.close>>
  IN  \A j \in 1..Len(out) : \A k \in 1..4 :
        /\ IsFinite(field(out[j])[k])
        /\ ~IsFinite(field(candles[j])[k]) => field(out[j])[k] = Zero

\* C11: for a non-empty prior record sequence and a new bar whose open, high,
\* low or close is NaN or infinite, the record returned by updateLastCandle has
\* finite open, high, low and close and finite indicator fields.
C11_AppendSanitizesNonFinite ==
  \A j \in Appended :
    (j > 1 /\ ~FiniteOHLC(candles[j])) =>
      FiniteOHLC(data[j]) /\ FiniteIndicators(data[j])

NonDecreasing(bars) ==
  \A j \in 2..Len(bars) : FGe(bars[j].close, bars[j - 1].close)

\* C14: for at least period+1 bars whose closes never decrease, calculateRSI
\* and the rsi field of processIndicators are exactly 100 at every index >=
\* period.
C14_RsiHundredWithoutLosses ==
  (NonDecreasing(candles) /\ Len(candles) >= RSI_PERIOD + 1) =>
    /\ LET a == calculateRSI(candles, RSI_PERIOD)
       IN  \A j \in 1..Len(a) : j - 1 >= RSI_PERIOD => a[j] = Num(100)
    /\ \A j \in 1..batched : j - 1 >= RSI_PERIOD => data[j].rsi = Num(100)

\* a batch-processed history with a strict rise and a flat step in it, several
\* indices past the period
C14_Witness ==
  /\ NonDecreasing(candles)
  /\ batched >= RSI_PERIOD + 3
  /\ \E j \in 2..batched : FGt(candles[j].close, candles[j - 1].close)
  /\ \E j \in 2..batched : candles[j].close = candles[j - 1].close
  /\ data[batched].rsi = Num(100)

\* every bar has open = high = low = close = c for one c > 0
Flat(bars) ==
  \A j \in 1..Len(bars) :
    /\ FGt(bars[j].close, Zero)
    /\ bars[j].close = bars[1].close
    /\ bars[j].open = bars[j].close
    /\ bars[j].high = bars[j].close
    /\ bars[j].low = bars[j].close

\* C15: on a flat series the records of processIndicators, and the records
\* appended to it by updateLastCandle, have atr = 0 from index period-1 on and
\* nwMid = nwUpper = nwLower = c past the warm-up.
C15_FlatSeries ==
  Flat(candles) =>
    \A j \in 1..Len(data) :
      /\ j - 1 >= ATR_PERIOD - 1 => data[j].atr = Zero
      /\ j - 1 >= NW_WARMUP =>
           /\ data[j].nwMid = candles[1].close
           /\ data[j].nwUpper = candles[1].close
           /\ data[j].nwLower = candles[1].close

\* a flat history processed in one batch past the warm-up and then extended by
\* updateLastCandle
C15_Witness ==
  /\ Flat(candles)
  /\ batched > NW_WARMUP
  /\ batched >= ATR_PERIOD
  /\ Len(data) > batched + 1
  /\ Last(data).nwUpper = Last(data).close

\* timestamps never decrease along the sequence
TimeOrdered(records) ==
  \A j \in 2..Len(records) : records[j].time >= records[j - 1].time

\* C16: a bar sequence whose timestamps decrease somewhere, given to
\* processIndicators, and a new bar older than the last prior record, given to
\* updateLastCandle, are answered with an error and not with indicator records:
\* the records returned so far are always in time order.
C16_MisuseReported == TimeOrdered(data)

\* C18: when the prior history has fewer than p bars, updateLastCandle sets the
\* new record's EMA-p to the new bar's close.
C18_EmaColdStart ==
  \A j \in Appended :
    j > 1 =>
      /\ j - 1 < EMA_FAST => data[j].ema12 = data[j].close
      /\ j - 1 < EMA_TUNNEL_1 => data[j].ema144 = data[j].close
      /\ j - 1 < EMA_TUNNEL_2 => data[j].ema169 = data[j].close
      /\ j - 1 < EMA_TREND_1 => data[j].ema576 = data[j].close
      /\ j - 1 < EMA_TREND_2 => data[j].ema676 = data[j].close

\* C19: when the prior history has fewer than period bars, updateLastCandle
\* sets the new record's atr to the new bar's own True Range.
C19_AtrColdStart ==
  \A j \in Appended :
    (j > 1 /\ j - 1 < ATR_PERIOD) =>
      data[j].atr = TrueRange(data[j].high, data[j].low, data[j - 1].close)

\* C20: when the prior records come from processIndicators over at least p
\* bars (EMA-p) and at least period bars (ATR), every record appended by
\* updateLastCandle has the EMA-p and the atr that calculateEMA and
\* calculateATR give at its index over the whole extended sequence (bars with
\* finite OHLC).
C20_AppendAfterBatchEqualsBatch ==
  AllFinite(candles) => \A j \in Appended :
    /\ batched >= EMA_FAST => data[j].ema12 = calculateEMA(candles, EMA_FAST)[j]
    /\ batched >= EMA_TUNNEL_1 => data[j].ema144 = calculateEMA(candles, EMA_TUNNEL_1)[j]
    /\ batched >= EMA_TUNNEL_2 => data[j].ema169 = calculateEMA(candles, EMA_TUNNEL_2)[j]
    /\ batched >= EMA_TREND_1 => data[j].ema576 = calculateEMA(candles, EMA_TREND_1)[j]
    /\ batched >= EMA_TREND_2 => data[j].ema676 = calculateEMA(candles, EMA_TREND_2)[j]
    /\ batched >= ATR_PERIOD => data[j].atr = calculateATR(candles, ATR_PERIOD)[j]

SmoothedSeededWithSums(bars, period) ==
  LET sm == smoothedDirectional(bars, period)
      d1 == directional(bars, 1)
      d2 == directional(bars, 2)
  IN  \A k \in 1..3 :
        At(sm, period)[k] =
          (IF period = 2 THEN FAdd(d1[k], d2[k])
           ELSE FAdd(FAdd(d1[k], d2[k]), directional(bars, 3)[k]))

\* C22 (as stated): the smoothed True Range, +DM and -DM are seeded at index
\* period with the running sum of the first period values and at every later
\* index i equal (previous * (period - 1) + new[i]) / period, as ATR does.
C22_SmoothedAsAtr ==
  Len(candles) >= ADX_PERIOD * 2 =>
    LET sm == smoothedDirectional(candles, ADX_PERIOD)
    IN  /\ SmoothedSeededWithSums(candles, ADX_PERIOD)
        /\ \A i \in (ADX_PERIOD + 1)..(Len(candles) - 1) : \A k \in 1..3 :
             At(sm, i)[k] =
               FDiv(FAdd(FMul(At(sm, i - 1)[k], Num(ADX_PERIOD - 1)),
                         directional(candles, i)[k]),
                    Num(ADX_PERIOD))

\* C22 (amended): the three series are seeded at index period with the sums
\* over the indices 1..period and at every later index i satisfy
\* period * smoothed[i] = (period - 1) * smoothed[i-1] + period * new[i]: the
\* summed form of Wilder's smoothing, period times the averaged form of ATR.
C22_SmoothedAsWilderSum ==
  Len(candles) >= ADX_PERIOD * 2 =>
    LET sm == smoothedDirectional(candles, ADX_PERIOD)
    IN  /\ SmoothedSeededWithSums(candles, ADX_PERIOD)
        /\ \A i \in (ADX_PERIOD + 1)..(Len(candles) - 1) : \A k \in 1..3 :
             FMul(Num(ADX_PERIOD), At(sm, i)[k]) =
               FAdd(FMul(Num(ADX_PERIOD - 1), At(sm, i - 1)[k]),
                    FMul(Num(ADX_PERIOD), directional(candles, i)[k]))

\* a sequence with smoothing steps after the seed and a nonzero smoothed True
\* Range, +DM and -DM at its last index
C22_Witness ==
  /\ Len(candles) >= ADX_PERIOD * 2 + 1
  /\ \A k \in 1..3 : FGt(Last(smoothedDirectional(candles, ADX_PERIOD))[k], Zero)

\* a[lo] + ... + a[hi] in the code's indexing
RECURSIVE SumOver(_, _, _)
SumOver(a, lo, hi) == IF lo > hi THEN Zero ELSE FAdd(SumOver(a, lo, hi - 1), At(a, hi))

\* C23: with fewer than 2*period bars calculateADX is 0 at every index;
\* otherwise it is 0 below index 2*period-1, the simple average of the DX
\* values at period..2*period-1 at index 2*period-1, and at every later index
\* i it is (ADX[i-1]*(period-1) + DX[i]) / period.
C23_AdxSeedAndStep ==
  LET n == Len(candles)
      adx == calculateADX(candles, ADX_PERIOD)
      dx == dxArray(candles, ADX_PERIOD)
  IN  /\ Len(adx) = n
      /\ n < ADX_PERIOD * 2 => \A i \in 0..(n - 1) : At(adx, i) = Zero
      /\ n >= ADX_PERIOD * 2 =>
           /\ \A i \in 0..(ADX_PERIOD * 2 - 2) : At(adx, i) = Zero
           /\ FMul(Num(ADX_PERIOD), At(adx, ADX_PERIOD * 2 - 1)) =
                SumOver(dx, ADX_PERIOD, ADX_PERIOD * 2 - 1)
           /\ \A i \in (ADX_PERIOD * 2)..(n - 1) :
                FMul(Num(ADX_PERIOD), At(adx, i)) =
                  FAdd(FMul(Num(ADX_PERIOD - 1), At(adx, i - 1)), At(dx, i))

\* a sequence two indices past the seed whose seed and last ADX are positive
\* and differ
C23_Witness ==
  /\ Len(candles) >= ADX_PERIOD * 2 + 2
  /\ FGt(At(calculateADX(candles, ADX_PERIOD), ADX_PERIOD * 2 - 1), Zero)
  /\ FGt(Last(calculateADX(candles, ADX_PERIOD)), Zero)
  /\ Last(calculateADX(candles, ADX_PERIOD)) #
       At(calculateADX(candles, ADX_PERIOD), ADX_PERIOD * 2 - 1)

\* C24: for every target index the number of bars that enter the weighted sums
\* of calculateNadarayaWatson and of calculateNextNadarayaWatson is at most
\* min(cap, available history), the available history counting the bars up to
\* and including the target bar.
C24_KernelWindowWithinCap ==
  LET n == Len(candles)
  IN  /\ \A i \in 0..(n - 1) :
           Cardinality(kernelSamples(n, i)) <= IMin(NW_LOOKBACK, i + 1)
      /\ \A len \in 1..(n - 1) :
           Cardinality(nextKernelSamples(len)) <= IMin(NW_LOOKBACK, len + 1)

\* close[lo] + ... + close[hi] in the code's indexing
RECURSIVE SumClose(_, _, _)
SumClose(bars, lo, hi) ==
  IF lo > hi THEN Zero ELSE FAdd(SumClose(bars, lo, hi - 1), At(bars, hi).close)

\* the contract of calculateEMA for one period
EmaContract(bars, period) ==
  LET n == Len(bars)
      ema == calculateEMA(bars, period)
  IN  /\ Len(ema) = n
      /\ n < period => \A i \in 0..(n - 1) : At(ema, i) = Zero
      /\ n >= period =>
           /\ \A i \in 0..(period - 2) : At(ema, i) = Zero
           /\ FMul(Num(period), At(ema, period - 1)) = SumClose(bars, 0, period - 1)
           /\ \A i \in period..(n - 1) :
                FMul(Num(period + 1), At(ema, i)) =
                  FAdd(FMul(Num(2), At(bars, i).close),
                       FMul(Num(period - 1), At(ema, i - 1)))

\* C25: calculateEMA returns a sequence of the length of the bars, not
\* determinable (0) below index period-1, the simple average of the first
\* period closes at index period-1, and close[i]*k + ema[i-1]*(1-k) with
\* k = 2/(period+1) at every index i >= period; with fewer than period bars no
\* index is determinable.
C25_EmaContract ==
  /\ EmaContract(candles, EMA_FAST)
  /\ EmaContract(candles, EMA_TUNNEL_1)
  /\ EmaContract(candles, EMA_TUNNEL_2)
  /\ EmaContract(candles, EMA_TREND_1)
  /\ EmaContract(candles, EMA_TREND_2)

\* a sequence long enough for the longest period to be seeded, with closes that
\* move, so that the shortest period has taken several steps away from its seed
C25_Witness ==
  /\ Len(candles) >= EMA_TREND_2
  /\ Len(candles) >= EMA_FAST + 3
  /\ Last(calculateEMA(candles, EMA_FAST)) # At(calculateEMA(candles, EMA_FAST), EMA_FAST - 1)
  /\ Last(calculateEMA(candles, EMA_FAST)) # Last(candles).close
  /\ FGt(Last(calculateEMA(candles, EMA_TREND_2)), Zero)

\* C26: the stored records of the application are in ascending time order in
\* every reachable state, whatever loads, uploads, live ticks and playback
\* ticks came before, and a live tick older than the last stored record leaves
\* the stored records as they are.
C26_StoredTimeAscending ==
  /\ TimeOrdered(data)
  /\ \A liveCandle \in LiveBars :
       (Len(data) > 0 /\ liveCandle.time < Last(data).time)
         => onUpdate(data, liveCandle) = data

\* the prior records updateLastCandle reads: the kernel's lookback and the
\* trailing context of RSI and ADX (500 and 300 in math.ts, so 500)
PriorWindow == IMax(NW_LOOKBACK, LOOKBACK)

\* C27: updateLastCandle reads no more than the last PriorWindow prior records:
\* with one more record in front of the stored records (as the record the
\* rolling buffer dropped) and a new bar, the record computed from the whole
\* prior sequence is the record computed from its last PriorWindow records;
\* the rolling buffer keeps at least that many, so dropping the oldest record
\* changes no later bar's indicators.
C27_DependsOnTrailingRecords ==
  /\ MAX_STORED_CANDLES >= PriorWindow
  /\ \A bar \in LiveBars :
       LET prior == <<data[1]>> \o data
       IN  Len(prior) > PriorWindow =>
             updateLastCandle(prior, bar)
               = updateLastCandle(SliceLast(prior, PriorWindow), bar)

\* the rolling buffer has dropped the first bar of the fetched history: the
\* stored records are full and start at its second bar
C27_Witness ==
  /\ Len(data) = MAX_STORED_CANDLES
  /\ Len(data) + 1 > PriorWindow
  /\ data[1].time = History[2].time /\ data[1].close = History[2].close
  /\ data[2].time = History[3].time /\ data[2].close = History[3].close

\* C28: a live tick that carries the time of the last stored record changes the
\* last record only: the stored sequence keeps its length and every earlier
\* record keeps the values of all its indicator fields.
C28_SameTimeTickChangesLastOnly ==
  \A liveCandle \in LiveBars :
    (streams > 0 /\ Len(data) > 0 /\ liveCandle.time = Last(data).time) =>
      LET newData == onUpdate(data, liveCandle)
      IN  /\ Len(newData) = Len(data)
          /\ \A j \in 1..(Len(data) - 1) :
               IndicatorFields(newData[j]) = IndicatorFields(data[j])

\* C29: stopping live mode is effective under every interleaving: outside live
\* mode (before any start, or once stopLiveStrategy has run, also while a
\* startLiveConnection still awaits its history sync) no WebSocket stream is
\* open, so no live tick can change the stored records; and no more than one
\* stream is open at any time.
C29_StopIsEffective ==
  /\ appMode # "LIVE" => streams = 0
  /\ streams <= 1

\* the OHLCV and time of a record
RawOf(r) == <<r.time, r.open, r.high, r.low, r.close, r.volume>>

\* what C30 says of one timer tick of playback over a CSV source
PlaybackTick ==
  IF Len(backlog) > 0
  THEN /\ backlog' = Tail(backlog)
       /\ Len(data') = IMin(Len(data) + 1, MAX_STORED_CANDLES)
       /\ RawOf(Last(data')) = RawOf(Head(backlog))
       /\ SubSeq(data', 1, Len(data') - 1) = SliceLast(data, MAX_STORED_CANDLES - 1)
       /\ isPlaying'
  ELSE /\ data' = data
       /\ backlog' = backlog
       /\ ~isPlaying'

\* C30: playback over a CSV source drains the queue and stops: every timer
\* tick takes the oldest queued bar off the queue and appends one record for it
\* after the records already stored (the oldest of those dropped when the
\* buffer is full), a tick that finds the queue empty leaves the stored
\* records as they are and ends playback, and playback over a CSV source
\* is always followed by a state in which it has stopped.
C30_PlaybackDrainsAndStops ==
  /\ [][((\E change \in Changes : SimulationTick(change)) /\ dataSource = "CSV")
          => PlaybackTick]_vars
  /\ (isPlaying /\ appMode = "BACKTEST" /\ dataSource = "CSV")
       ~> (~isPlaying \/ dataSource # "CSV")

\* playback over a CSV source has taken bars off the queue and more are queued
C30_Witness ==
  /\ isPlaying /\ appMode = "BACKTEST" /\ dataSource = "CSV"
  /\ Len(data) > INITIAL_COUNT
  /\ Len(backlog) > 0

====
